---- MODULE Spec2Model ----
(***************************************************************************)
(* A model of src/common/utils/format.ts: the display-formatting           *)
(* utilities of the chart (property-path resolver, magnitude abbreviation, *)
(* thousands grouping, decimal zero-run folding, date templating).         *)
(*                                                                         *)
(* Every utility is a pure function.  A JavaScript string is modelled as   *)
(* the sequence of its characters (each a one-character TLA+ string; the   *)
(* subscript glyphs U+2080..U+2089 are written "sub0".."sub9").  Each      *)
(* specification draws the arguments of one call in its initial state and  *)
(* has one action per exported function that performs the call.            *)
(***************************************************************************)
EXTENDS Integers, Sequences, FiniteSets, TLC

VARIABLES
  pc,      \* "call": the arguments are chosen; "done": the function returned;
           \* "redone": formatThousands was applied again to its own output
  args,    \* the arguments of the call
  locals,  \* the locals of the call that the properties speak about
  result   \* the value returned

vars == <<pc, args, locals, result>>

NoLocals == [none |-> TRUE]
NoResult == [t |-> "pending"]

(***************************************************************************)
(* Bounds of the model.                                                    *)
(***************************************************************************)
\* longest path over PathChars that is enumerated exhaustively
MaxPathLen == 5
\* longest text between the quotes / brackets of an enumerated bracket segment
MaxInner == 3
\* longest path over DotChars that is enumerated with every data value
MaxDotLen == 5
\* formatBigNumber is called with every integer this close to a threshold
MaxOffset == 3
\* most digits after the decimal point of a number passed to formatBigNumber
MaxFrac == 3
\* longest string over ThousandsChars passed to formatThousands
MaxValueLen == 7
\* longest run of zeros after the decimal point of a value passed to the folders
MaxZeros == 11
\* largest threshold passed to the folders
MaxThreshold == 4
\* longest template over TemplateChars passed to formatDateToString
MaxTemplateLen == 5

(***************************************************************************)
(* Generic helpers on sequences.                                           *)
(***************************************************************************)
\* all sequences over S of length at most n
SeqsUpTo(S, n) == UNION { [1..k -> S] : k \in 0..n }

Max(S) == CHOOSE x \in S : \A y \in S : y <= x

(***************************************************************************)
(* JavaScript values.                                                      *)
(***************************************************************************)
Undefined == [t |-> "undefined"]
Null == [t |-> "null"]
\* a finite number is neg * m * 10^e in lowest terms of ten (m has no trailing
\* zero, zero is m = 0, e = 0); NaN is the number that is not finite
RECURSIVE Norm(_, _, _)
Norm(neg, m, e) ==
  IF m = 0 THEN [t |-> "number", neg |-> FALSE, m |-> 0, e |-> 0]
  ELSE IF m % 10 = 0 THEN Norm(neg, m \div 10, e + 1)
  ELSE [t |-> "number", neg |-> neg, m |-> m, e |-> e]
Num(n) == IF n < 0 THEN Norm(TRUE, 0 - n, 0) ELSE Norm(FALSE, n, 0)
NaN == [t |-> "number", nan |-> TRUE]
Str(s) == [t |-> "string", s |-> s]
Bool(b) == [t |-> "boolean", b |-> b]
\* an object: props maps each own property name (a string) to its value
Obj(props) == [t |-> "object", props |-> props]
EmptyObj == Obj([k \in {} |-> Undefined])

\* isValid of ./typeChecks: neither null nor undefined
isValid(x) == x.t \notin {"undefined", "null"}

\* value?.[key] for a valid value: the own property of an object.  The keys
\* of the model are made of the characters a b c 0 . [ ] ' " \ and the space,
\* and name no member of a string (its indices aside, and no string is
\* indexed by "0" here), number or boolean, nor of Object.prototype.
GetMember(value, key) ==
  IF value.t = "object" /\ key \in DOMAIN value.props THEN value.props[key]
  ELSE Undefined

(***************************************************************************)
(* formatValue: the path tokenizer (rePropName, reEscapeChar).             *)
(***************************************************************************)
BS == "\\"
Quotes == {"'", "\""}
Specials == {".", "[", "]"}
Whitespace == {" "}

RECURSIVE BareEnd(_, _)
\* [^.[\]]+ tried at i: the index after the longest run of characters that
\* are none of . [ ]  (the run is empty, and the alternative fails, when the
\* result is i)
BareEnd(s, i) ==
  IF i <= Len(s) /\ s[i] \notin Specials THEN BareEnd(s, i + 1) ELSE i

\* \[([^"'][^[]*)\] tried at i: the indices of a closing "]" the greedy
\* [^[]* can stop before
UnquotedCloses(s, i) ==
  IF i + 1 <= Len(s) /\ s[i] = "[" /\ s[i + 1] \notin Quotes
    THEN { j \in (i + 2)..Len(s) :
             s[j] = "]" /\ \A k \in (i + 2)..(j - 1) : s[k] # "[" }
    ELSE {}

RECURSIVE QuotedScan(_, _, _)
\* ((?:(?!\2)[^\\]|\\.)*?)\2\] with p at an item boundary: the lazy star
\* first tries to leave (closing quote q and "]"), else takes one item.  The
\* index of the closing quote, or 0 when the alternative fails.
QuotedScan(s, q, p) ==
  IF p + 1 <= Len(s) /\ s[p] = q /\ s[p + 1] = "]" THEN p
  ELSE IF p > Len(s) THEN 0
  ELSE IF s[p] = BS THEN (IF p + 1 <= Len(s) THEN QuotedScan(s, q, p + 2) ELSE 0)
  ELSE IF s[p] # q THEN QuotedScan(s, q, p + 1)
  ELSE 0

\* (?:\.|\[\]) at i: the number of characters it takes, 0 when it fails
SepLen(s, i) ==
  IF i <= Len(s) /\ s[i] = "." THEN 1
  ELSE IF i + 1 <= Len(s) /\ s[i] = "[" /\ s[i + 1] = "]" THEN 2
  ELSE 0

\* the lookahead with any "[" accepted after the separator
EmptyAtAnyBracket(s, i) ==
  LET n == SepLen(s, i)
  IN  n > 0 /\ (i + n > Len(s) \/ s[i + n] \in {".", "["})

\* (?=(?:\.|\[\])(?:\.|\[\]|$)) at i
EmptyAt(s, i) ==
  LET n == SepLen(s, i)
  IN  n > 0 /\ (i + n > Len(s) \/ SepLen(s, i + n) > 0)

NoMatch == [kind |-> "none"]

\* one attempt of rePropName at index i, its alternatives in order: the
\* match's end (index after it), the whole match and the capture groups
rePropNameAt(s, i) ==
  IF BareEnd(s, i) > i
    THEN [kind |-> "bare", end |-> BareEnd(s, i),
          sub |-> SubSeq(s, i, BareEnd(s, i) - 1)]
  ELSE IF UnquotedCloses(s, i) # {}
    THEN LET j == Max(UnquotedCloses(s, i))
         IN  [kind |-> "unquoted", end |-> j + 1, sub |-> SubSeq(s, i, j),
              p1 |-> SubSeq(s, i + 1, j - 1)]
  ELSE IF i + 1 <= Len(s) /\ s[i] = "[" /\ s[i + 1] \in Quotes
          /\ QuotedScan(s, s[i + 1], i + 2) > 0
    THEN LET e == QuotedScan(s, s[i + 1], i + 2)
         IN  [kind |-> "quoted", end |-> e + 2, sub |-> SubSeq(s, i, e + 1),
              p2 |-> s[i + 1], p3 |-> SubSeq(s, i + 2, e - 1)]
  ELSE IF EmptyAt(s, i)
    THEN [kind |-> "empty", end |-> i, sub |-> <<>>]
  ELSE NoMatch

RECURSIVE reEscapeCharReplace(_)
\* s.replace(/\\(\\)?/g, "$1"): a backslash followed by a backslash becomes
\* one backslash, any other backslash is removed
reEscapeCharReplace(s) ==
  IF s = <<>> THEN <<>>
  ELSE IF s[1] = BS
    THEN IF Len(s) >= 2 /\ s[2] = BS
           THEN <<BS>> \o reEscapeCharReplace(SubSeq(s, 3, Len(s)))
           ELSE reEscapeCharReplace(Tail(s))
  ELSE <<s[1]>> \o reEscapeCharReplace(Tail(s))

RECURSIVE trim(_)
\* String.prototype.trim
trim(s) ==
  IF s # <<>> /\ s[1] \in Whitespace THEN trim(Tail(s))
  ELSE IF s # <<>> /\ s[Len(s)] \in Whitespace THEN trim(SubSeq(s, 1, Len(s) - 1))
  ELSE s

\* the callback without the trim of the unquoted capture
PathKeyUntrimmed(m) ==
  CASE m.kind = "quoted" -> reEscapeCharReplace(m.p3)
    [] m.kind = "unquoted" -> m.p1
    [] OTHER -> m.sub

\* the replace callback: the key pushed for one match
PathKey(m) ==
  CASE m.kind = "quoted" -> reEscapeCharReplace(m.p3)
    [] m.kind = "unquoted" -> trim(m.p1)
    [] OTHER -> m.sub

RECURSIVE TokenizeFrom(_, _, _)
\* key.replace(rePropName, callback) from lastIndex i: the regex is tried at
\* each index from i on; after a match the scan resumes at its end, one
\* further when the match was empty
TokenizeFrom(s, i, path) ==
  IF i > Len(s) + 1 THEN path
  ELSE LET m == rePropNameAt(s, i)
       IN  IF m.kind = "none" THEN TokenizeFrom(s, i + 1, path)
           ELSE TokenizeFrom(s, IF m.end = i THEN i + 1 ELSE m.end,
                             Append(path, PathKey(m)))

Tokenize(key) == TokenizeFrom(key, 1, <<>>)

(***************************************************************************)
(* formatValue: the walk and the fallback.                                 *)
(***************************************************************************)
Placeholder == Str(<<"-", "-">>)

\* defaultValue ?? "--"
DefaultOr(defaultValue) ==
  IF isValid(defaultValue) THEN defaultValue ELSE Placeholder

RECURSIVE Walk(_, _, _)
\* while (isValid(value) && index < length) value = value?.[path[index++]]
Walk(value, path, index) ==
  IF isValid(value) /\ index <= Len(path)
    THEN Walk(GetMember(value, path[index]), path, index + 1)
    ELSE value

\* the final test by truthiness instead of validity
WalkResultTruthy(value, defaultValue) ==
  IF isValid(value) /\ value \notin {Num(0), Str(<<>>), Bool(FALSE)}
    THEN value ELSE DefaultOr(defaultValue)

\* isValid(value) ? value : defaultValue ?? "--"
WalkResult(value, defaultValue) ==
  IF isValid(value) THEN value ELSE DefaultOr(defaultValue)

formatValue(data, key, defaultValue) ==
  IF isValid(data)
    THEN WalkResult(Walk(data, Tokenize(key), 1), defaultValue)
    ELSE DefaultOr(defaultValue)

(***************************************************************************)
(* formatValue: the calls explored.                                        *)
(***************************************************************************)
A == <<"a">>
B == <<"b">>
Prop(k, v) == Obj(k :> v)

Leaves == {Num(0), Num(1), Str(<<>>), Bool(FALSE), Null}
\* nested records one to three levels deep, and values that are no record
DataValues ==
  {Null, Undefined, Num(0), Str(<<"a", "b">>), EmptyObj,
   Prop(<<"a", "b">>, Num(1)), Prop(A, Undefined)}
  \cup {Prop(A, l) : l \in Leaves}
  \cup {Prop(A, Prop(B, l)) : l \in Leaves}
  \cup {Prop(A, Prop(B, Prop(A, l))) : l \in Leaves}
DefaultValues == {Undefined, Null, Num(0), Str(<<"x">>)}

DotChars == {"a", "b", "."}
PathChars == {"a", "b", ".", "[", "]"}
InnerChars == {"b", "c", ".", BS, "'", " ", "0"}

\* a record whose "a" member has the keys the bracket and empty-key paths reach
KeyedData ==
  Prop(A, Obj(<<>> :> Num(7) @@ B :> Num(1) @@ <<"b", ".", "c">> :> Num(1)
              @@ <<"0">> :> Num(2) @@ <<"b", "b">> :> Prop(<<>>, Num(3))))

FormatValueArgs(data, key, defaultValue) ==
  [fn |-> "formatValue", data |-> data, key |-> key, defaultValue |-> defaultValue]

\* paths over . and two letters, against every data value and default
DotCalls ==
  { FormatValueArgs(d, k, dv) :
      d \in DataValues, k \in SeqsUpTo(DotChars, MaxDotLen), dv \in DefaultValues }
\* every short path over the tokenizer's special characters
PathCalls ==
  { FormatValueArgs(KeyedData, k, Undefined) : k \in SeqsUpTo(PathChars, MaxPathLen) }
\* a[...] with every short text between the brackets, optionally quoted, and
\* optionally followed by another segment
BracketTails == {<<>>, <<".", "b">>, <<"[", "b", "]">>}
QuoteMarks == {<<>>, <<"'">>, <<"\"">>}
BracketCalls ==
  { FormatValueArgs(KeyedData, A \o <<"[">> \o q1 \o inner \o q2 \o <<"]">> \o tail,
                    Undefined) :
      q1 \in QuoteMarks, q2 \in QuoteMarks,
      inner \in SeqsUpTo(InnerChars, MaxInner), tail \in BracketTails }

InitValue ==
  /\ pc = "call"
  /\ \/ args \in DotCalls
     \/ args \in PathCalls
     \/ args \in BracketCalls
  /\ locals = NoLocals
  /\ result = NoResult

\* one call of formatValue; locals.path is the token list the callback built
FormatValue ==
  /\ pc = "call"
  /\ args.fn = "formatValue"
  /\ locals' = IF isValid(args.data) THEN [path |-> Tokenize(args.key)] ELSE NoLocals
  /\ result' = formatValue(args.data, args.key, args.defaultValue)
  /\ pc' = "done"
  /\ UNCHANGED args

NextValue == FormatValue

SpecValue == InitValue /\ [][NextValue]_vars

Returned(fn) == pc = "done" /\ args.fn = fn

(***************************************************************************)
(* Numbers and their string forms (template literal, unary plus).          *)
(***************************************************************************)
DigitChars == <<"0", "1", "2", "3", "4", "5", "6", "7", "8", "9">>
IsDigit(c) == \E d \in 1..10 : DigitChars[d] = c
DigitValue(c) == (CHOOSE d \in 1..10 : DigitChars[d] = c) - 1

RECURSIVE Pow10(_)
Pow10(n) == IF n = 0 THEN 1 ELSE 10 * Pow10(n - 1)

RECURSIVE Digits(_)
\* the decimal digits of a natural number
Digits(n) ==
  IF n < 10 THEN <<DigitChars[n + 1]>>
  ELSE Digits(n \div 10) \o <<DigitChars[(n % 10) + 1]>>

Zeros(n) == [i \in 1..n |-> "0"]

\* isNumber of ./typeChecks: a finite number
isNumber(v) == v.t = "number" /\ "nan" \notin DOMAIN v

\* Number::toString(x), radix 10: positional notation while the decimal point
\* lies within 21 digits to the right and 6 zeros to the left of the digits,
\* exponential notation otherwise
NumberToString(x) ==
  IF ~isNumber(x) THEN <<"N", "a", "N">>
  ELSE IF x.m = 0 THEN <<"0">>
  ELSE LET ds == Digits(x.m)
           k == Len(ds)
           n == k + x.e
           sign == IF x.neg THEN <<"-">> ELSE <<>>
           body ==
             IF k <= n /\ n <= 21 THEN ds \o Zeros(n - k)
             ELSE IF 0 < n /\ n <= 21 THEN SubSeq(ds, 1, n) \o <<".">> \o SubSeq(ds, n + 1, k)
             ELSE IF -6 < n /\ n <= 0 THEN <<"0", ".">> \o Zeros(0 - n) \o ds
             ELSE LET ex == <<"e", IF n - 1 < 0 THEN "-" ELSE "+">>
                              \o Digits(IF n - 1 < 0 THEN 1 - n ELSE n - 1)
                  IN  IF k = 1 THEN ds \o ex
                      ELSE <<ds[1], ".">> \o SubSeq(ds, 2, k) \o ex
       IN  sign \o body

\* `${value}` for a string or a number
ToStr(value) == IF value.t = "string" THEN value.s ELSE NumberToString(value)

RECURSIVE DigitsValue(_)
\* the natural number a digit string denotes
DigitsValue(ds) ==
  IF ds = <<>> THEN 0 ELSE 10 * DigitsValue(SubSeq(ds, 1, Len(ds) - 1)) + DigitValue(ds[Len(ds)])

AllDigits(s) == \A i \in 1..Len(s) : IsDigit(s[i])

\* StringToNumber for an unsigned decimal literal: digits, with an optional
\* point and fraction (not both parts empty)
UnsignedToNumber(neg, s) ==
  LET dots == {i \in 1..Len(s) : s[i] = "."}
  IN  IF dots = {} THEN
        (IF s # <<>> /\ AllDigits(s) THEN Norm(neg, DigitsValue(s), 0) ELSE NaN)
      ELSE LET d == CHOOSE i \in dots : TRUE
               ip == SubSeq(s, 1, d - 1)
               fp == SubSeq(s, d + 1, Len(s))
           IN  IF Cardinality(dots) = 1 /\ AllDigits(ip) /\ AllDigits(fp) /\ Len(ip) + Len(fp) > 0
                 THEN Norm(neg, DigitsValue(ip \o fp), 0 - Len(fp))
                 ELSE NaN

\* +value: a number is itself; a string is trimmed and read as a decimal
\* literal with an optional sign, the empty string as 0, anything else as NaN
ToNumber(value) ==
  IF value.t = "number" THEN value
  ELSE LET s == trim(value.s)
       IN  IF s = <<>> THEN Num(0)
           ELSE IF s[1] \in {"-", "+"} THEN UnsignedToNumber(s[1] = "-", Tail(s))
           ELSE UnsignedToNumber(FALSE, s)

(***************************************************************************)
(* formatBigNumber.                                                        *)
(***************************************************************************)
\* v >= 10^t, v > 10^t for a finite v, decided on the digits: v has
\* Len(Digits(m)) + e digits before its decimal point
AtLeastPow10(v, t) == ~v.neg /\ v.m > 0 /\ Len(Digits(v.m)) + v.e >= t + 1
ExceedsPow10(v, t) == AtLeastPow10(v, t) /\ ~(v.m = 1 /\ v.e = t)

\* (v / 10^d).toFixed(3) as the number of thousandths it shows, for v > 10^d.
\* An exact decimal tie is decided by the binary value of the quotient, which
\* may lie on either side: both neighbours are possible outcomes.
ToFixed3(v, d) ==
  IF v.e - d + 3 >= 0 THEN {v.m * Pow10(v.e - d + 3)}
  ELSE LET P == Pow10(d - 3 - v.e)
           q == v.m \div P
           r == v.m % P
       IN  IF 2 * r < P THEN {q} ELSE IF 2 * r > P THEN {q + 1} ELSE {q, q + 1}

\* `${+(v / 10^d).toFixed(3)}${suffix}`
Abbreviated(v, d, suffix) ==
  { NumberToString(Norm(FALSE, n, 0 - 3)) \o <<suffix>> : n \in ToFixed3(v, d) }

\* the thresholds compared with >= instead of >
formatBigNumberInclusive(value) ==
  LET v == ToNumber(value)
  IN  IF isNumber(v) /\ AtLeastPow10(v, 9) THEN Abbreviated(v, 9, "B")
      ELSE IF isNumber(v) /\ AtLeastPow10(v, 6) THEN Abbreviated(v, 6, "M")
      ELSE IF isNumber(v) /\ AtLeastPow10(v, 3) THEN Abbreviated(v, 3, "K")
      ELSE {ToStr(value)}

\* the strings formatBigNumber(value) can return
formatBigNumber(value) ==
  LET v == ToNumber(value)
  IN  IF isNumber(v) /\ ExceedsPow10(v, 9) THEN Abbreviated(v, 9, "B")
      ELSE IF isNumber(v) /\ ExceedsPow10(v, 6) THEN Abbreviated(v, 6, "M")
      ELSE IF isNumber(v) /\ ExceedsPow10(v, 3) THEN Abbreviated(v, 3, "K")
      ELSE {ToStr(value)}

(***************************************************************************)
(* formatBigNumber: the calls explored.                                    *)
(***************************************************************************)
Mantissas == {1, 15, 999, 1001, 1234, 10005, 12345, 99995, 1234567}
\* m * 10^e stays below 2 * 10^9, within the integers of the model
Representable(m, e) ==
  \/ Len(Digits(m)) + e <= 9
  \/ Len(Digits(m)) + e = 10 /\ Digits(m)[1] = "1"
BigNumbers ==
  { Norm(neg, me[1], me[2]) : neg \in BOOLEAN,
      me \in { x \in Mantissas \X ((0 - MaxFrac)..9) : Representable(x[1], x[2]) } }
  \cup { Num(Pow10(t) + o) : t \in {3, 6, 9}, o \in (0 - MaxOffset)..MaxOffset }
  \cup { Num(0) }
BigStrings ==
  { <<>>, <<"a">>, <<"1", "0", "0", "0">>, <<"1", "5", "0", "0">>,
    <<"1", "0", "0", "0", ".", "0">>, <<"1", "0", "0", "0", ".", "5">>,
    <<" ", "2", "5", "0", "0", " ">>, <<"-", "5", "0", "0", "0">>,
    <<"1", ".", "2", ".", "3">>, <<"1", ",", "5", "0", "0">>,
    <<"1", "0", "0", "0", "0", "0", "0">>, <<"2", "5", "0", "0", "0", "0", "0">> }

InitBig ==
  /\ pc = "call"
  /\ args \in { [fn |-> "formatBigNumber", value |-> v] :
                  v \in BigNumbers \cup { Str(x) : x \in BigStrings } }
  /\ locals = NoLocals
  /\ result = NoResult

\* one call of formatBigNumber; result is the string returned
FormatBigNumber ==
  /\ pc = "call"
  /\ args.fn = "formatBigNumber"
  /\ result' \in formatBigNumber(args.value)
  /\ pc' = "done"
  /\ UNCHANGED <<args, locals>>

NextBig == FormatBigNumber

SpecBig == InitBig /\ [][NextBig]_vars

(***************************************************************************)
(* formatThousands.                                                        *)
(***************************************************************************)
RECURSIVE Split(_, _)
\* s.split(c) for a one-character separator c
Split(s, c) ==
  IF \A i \in 1..Len(s) : s[i] # c THEN <<s>>
  ELSE LET d == CHOOSE i \in 1..Len(s) : s[i] = c /\ \A j \in 1..(i - 1) : s[j] # c
       IN  <<SubSeq(s, 1, d - 1)>> \o Split(SubSeq(s, d + 1, Len(s)), c)

RECURSIVE Join(_, _)
\* parts.join(c)
Join(parts, c) ==
  IF Len(parts) = 0 THEN <<>>
  ELSE IF Len(parts) = 1 THEN parts[1]
  ELSE parts[1] \o <<c>> \o Join(Tail(parts), c)

Includes(s, c) == \E i \in 1..Len(s) : s[i] = c

\* (?=(\d{3})+$) after index i: only digits follow, a positive multiple of 3
ThreesToEnd(s, i) ==
  /\ Len(s) - i > 0
  /\ (Len(s) - i) % 3 = 0
  /\ \A j \in (i + 1)..Len(s) : IsDigit(s[j])

\* the lookahead with . in place of \d: any characters, a positive multiple of 3
AnyThreesToEnd(s, i) == Len(s) - i > 0 /\ (Len(s) - i) % 3 = 0

RECURSIVE GroupedAnyFrom(_, _, _)
GroupedAnyFrom(s, i, sign) ==
  IF i > Len(s) THEN <<>>
  ELSE <<s[i]>> \o (IF IsDigit(s[i]) /\ AnyThreesToEnd(s, i) THEN sign ELSE <<>>)
       \o GroupedAnyFrom(s, i + 1, sign)
GroupedAny(s, sign) == GroupedAnyFrom(s, 1, sign)

RECURSIVE GroupedFrom(_, _, _)
GroupedFrom(s, i, sign) ==
  IF i > Len(s) THEN <<>>
  ELSE <<s[i]>> \o (IF IsDigit(s[i]) /\ ThreesToEnd(s, i) THEN sign ELSE <<>>)
       \o GroupedFrom(s, i + 1, sign)

\* s.replace(/(\d)(?=(\d{3})+$)/g, ($1) => `${$1}${sign}`)
Grouped(s, sign) == GroupedFrom(s, 1, sign)

formatThousands(value, sign) ==
  LET vl == ToStr(value)
  IN  IF Len(sign) = 0 THEN vl
      ELSE IF Includes(vl, ".")
        THEN LET arr == Split(vl, ".")
             IN  Grouped(arr[1], sign) \o <<".">> \o arr[2]
      ELSE Grouped(vl, sign)

ThousandsChars == {"1", "2", "."}
ThousandsNumbers ==
  { Num(1234567), Num(0 - 1234567), Norm(FALSE, 12345678, 0 - 4), Num(999), Num(1000),
    Norm(FALSE, 15, 0 - 8), Norm(FALSE, 1, 21), Norm(TRUE, 1234567891, 0 - 2), NaN }
ThousandsStrings ==
  { <<"a", "1", "2", "3", "4">>, <<"1", ",", "2", "3", "4">>, <<"-", "1", "2", "3", "4">>,
    <<"1", "2", "3", "4", " ">> }
ThousandsValues ==
  ThousandsNumbers
  \cup { Str(x) : x \in SeqsUpTo(ThousandsChars, MaxValueLen) \cup ThousandsStrings }
Separators == { <<>>, <<",">>, <<".">>, <<" ">>, <<"1">>, <<"'", "'">> }

InitThousands ==
  /\ pc = "call"
  /\ args \in { [fn |-> "formatThousands", value |-> v, sign |-> sep] :
                  v \in ThousandsValues, sep \in Separators }
  /\ locals = NoLocals
  /\ result = NoResult

\* one call of formatThousands; result is the string returned
FormatThousands ==
  /\ pc = "call"
  /\ args.fn = "formatThousands"
  /\ result' = formatThousands(args.value, args.sign)
  /\ pc' = "done"
  /\ UNCHANGED <<args, locals>>

\* formatThousands called again on what it returned, with the same
\* separator; locals.first keeps the first call's result
FormatThousandsAgain ==
  /\ pc = "done"
  /\ args.fn = "formatThousands"
  /\ locals' = [first |-> result]
  /\ result' = formatThousands(Str(result), args.sign)
  /\ pc' = "redone"
  /\ UNCHANGED args

NextThousands == FormatThousands \/ FormatThousandsAgain

SpecThousands == InitThousands /\ [][NextThousands]_vars

(***************************************************************************)
(* formatFoldDecimal and its two policies.                                 *)
(***************************************************************************)
NonZeroDigit(c) == IsDigit(c) /\ c # "0"

\* 0{threshold,}[1-9][0-9]*$ right after index i
ZeroRunThenDigits(vl, i, threshold) ==
  \E z \in threshold..(Len(vl) - i - 1) :
    /\ \A j \in (i + 1)..(i + z) : vl[j] = "0"
    /\ NonZeroDigit(vl[i + z + 1])
    /\ \A j \in (i + z + 2)..Len(vl) : IsDigit(vl[j])

\* the pattern with one zero more than the threshold required
RegTestOneMore(vl, threshold) ==
  \E i \in 1..Len(vl) : vl[i] = "." /\ ZeroRunThenDigits(vl, i, threshold + 1)

\* new RegExp("\\.0{" + threshold + ",}[1-9][0-9]*$").test(vl)
RegTest(vl, threshold) ==
  \E i \in 1..Len(vl) : vl[i] = "." /\ ZeroRunThenDigits(vl, i, threshold)

RECURSIVE LeadingZeros(_)
\* v.match(/0*/)[0].length
LeadingZeros(v) ==
  IF v # <<>> /\ v[1] = "0" THEN 1 + LeadingZeros(Tail(v)) ELSE 0

\* (count) => `{${count}}`
CurlyBracket(count) == <<"{">> \o Digits(count) \o <<"}">>

\* subscriptNumbers
subscriptNumbers ==
  [c \in {DigitChars[d] : d \in 1..10} |->
     CASE c = "0" -> "sub0" [] c = "1" -> "sub1" [] c = "2" -> "sub2"
       [] c = "3" -> "sub3" [] c = "4" -> "sub4" [] c = "5" -> "sub5"
       [] c = "6" -> "sub6" [] c = "7" -> "sub7" [] c = "8" -> "sub8"
       [] c = "9" -> "sub9"]

\* `${count}`.replace(/\d/, ($1) => subscriptNumbers[$1] ?? ""): the pattern
\* has no g flag, so the first digit is replaced and the others are kept
Subscript(count) ==
  LET ds == Digits(count)
  IN  <<subscriptNumbers[ds[1]]>> \o Tail(ds)

\* format(count) for the callback passed: the two policies of this file, and
\* a caller's callback that writes the count in decimal
RenderCount(format, count) ==
  CASE format = "curly" -> CurlyBracket(count)
    [] format = "subscript" -> Subscript(count)
    [] OTHER -> Digits(count)

\* the replacement without the "0" written before the marker
FoldedSegmentBare(v, format) ==
  RenderCount(format, LeadingZeros(v)) \o SubSeq(v, LeadingZeros(v) + 1, Len(v))

\* v.replace(/0*/, `0${format(count)}`) with count the length of v's leading
\* zeros: the pattern matches those zeros at the start of v (no marker of the
\* callbacks used holds a "$", so the replacement is inserted as it is)
FoldedSegment(v, format) ==
  <<"0">> \o RenderCount(format, LeadingZeros(v)) \o SubSeq(v, LeadingZeros(v) + 1, Len(v))

formatFoldDecimal(value, threshold, format) ==
  LET vl == ToStr(value)
  IN  IF RegTest(vl, threshold)
        THEN LET parts == Split(vl, ".")
                 lastIndex == Len(parts)
             IN  Join([parts EXCEPT ![lastIndex] = FoldedSegment(parts[lastIndex], format)], ".")
        ELSE vl

formatFoldDecimalForCurlyBracket(value, threshold) ==
  formatFoldDecimal(value, threshold, "curly")

formatFoldDecimalForSubscript(value, threshold) ==
  formatFoldDecimal(value, threshold, "subscript")

\* the locals of a call that folded: the count and the marker format(count)
FoldLocals(value, threshold, format) ==
  IF RegTest(ToStr(value), threshold)
    THEN LET parts == Split(ToStr(value), ".")
         IN  [count |-> LeadingZeros(parts[Len(parts)]),
              marker |-> RenderCount(format, LeadingZeros(parts[Len(parts)]))]
    ELSE NoLocals

FoldHeads == { <<"0">>, <<"1", "2">>, <<"-", "1">>, <<>>, <<"1", ".", "2">> }
FoldPoints == { <<".">>, <<>>, <<",">> }
FoldTails ==
  { <<>>, <<"1">>, <<"1", "2", "3">>, <<"1", "0">>, <<"5", "a">>, <<"a">>,
    <<"1", ".", "5">>, <<"1", "e", "-", "7">> }
FoldStrings ==
  { h \o p \o Zeros(z) \o tl :
      h \in FoldHeads, p \in FoldPoints, z \in 0..MaxZeros, tl \in FoldTails }
FoldNumbers ==
  { Norm(neg, m, e) : neg \in BOOLEAN, m \in {1, 123, 105},
                      e \in (0 - MaxZeros - 3)..1 }
FoldValues == FoldNumbers \cup { Str(x) : x \in FoldStrings }

FoldArgs(fn, value, threshold, format) ==
  [fn |-> fn, value |-> value, threshold |-> threshold, format |-> format]

InitFold ==
  /\ pc = "call"
  /\ \E v \in FoldValues, t \in 0..MaxThreshold :
       args \in { FoldArgs("formatFoldDecimal", v, t, "decimal"),
                  FoldArgs("formatFoldDecimalForCurlyBracket", v, t, "curly"),
                  FoldArgs("formatFoldDecimalForSubscript", v, t, "subscript") }
  /\ locals = NoLocals
  /\ result = NoResult

\* one call of formatFoldDecimal with a caller's callback
FormatFoldDecimal ==
  /\ pc = "call"
  /\ args.fn = "formatFoldDecimal"
  /\ locals' = FoldLocals(args.value, args.threshold, args.format)
  /\ result' = formatFoldDecimal(args.value, args.threshold, args.format)
  /\ pc' = "done"
  /\ UNCHANGED args

FormatFoldDecimalForCurlyBracket ==
  /\ pc = "call"
  /\ args.fn = "formatFoldDecimalForCurlyBracket"
  /\ locals' = FoldLocals(args.value, args.threshold, "curly")
  /\ result' = formatFoldDecimalForCurlyBracket(args.value, args.threshold)
  /\ pc' = "done"
  /\ UNCHANGED args

FormatFoldDecimalForSubscript ==
  /\ pc = "call"
  /\ args.fn = "formatFoldDecimalForSubscript"
  /\ locals' = FoldLocals(args.value, args.threshold, "subscript")
  /\ result' = formatFoldDecimalForSubscript(args.value, args.threshold)
  /\ pc' = "done"
  /\ UNCHANGED args

NextFold ==
  \/ FormatFoldDecimal
  \/ FormatFoldDecimalForCurlyBracket
  \/ FormatFoldDecimalForSubscript

SpecFold == InitFold /\ [][NextFold]_vars

(***************************************************************************)
(* formatDateToDateTime and formatDateToString.  The formatter is the      *)
(* caller's: a call is given the parts its formatToParts returns for the   *)
(* timestamp.                                                              *)
(***************************************************************************)
Part(type, value) == [type |-> type, value |-> value]

\* the field a part type is stored in
FieldOf ==
  "year" :> "YYYY" @@ "month" :> "MM" @@ "day" :> "DD" @@ "hour" :> "HH"
  @@ "minute" :> "mm" @@ "second" :> "ss"

\* an hour part stored as it comes
StoredValueRaw(part) == part.value

\* date.HH = value === "24" ? "00" : value; the other fields take the value
StoredValue(part) ==
  IF part.type = "hour" /\ part.value = <<"2", "4">> THEN <<"0", "0">> ELSE part.value

RECURSIVE formatDateToDateTime(_)
\* the forEach over the parts, the last one applied last: a part of a known
\* type sets its field, the others are skipped
formatDateToDateTime(parts) ==
  IF parts = <<>> THEN [k \in {} |-> <<>>]
  ELSE LET part == parts[Len(parts)]
           before == formatDateToDateTime(SubSeq(parts, 1, Len(parts) - 1))
       IN  IF part.type \in DOMAIN FieldOf
             THEN (FieldOf[part.type] :> StoredValue(part)) @@ before
             ELSE before

Tokens ==
  << <<"Y", "Y", "Y", "Y">>, <<"M", "M">>, <<"D", "D">>, <<"H", "H">>,
     <<"m", "m">>, <<"s", "s">> >>
TokenName ==
  <<"Y", "Y", "Y", "Y">> :> "YYYY" @@ <<"M", "M">> :> "MM" @@ <<"D", "D">> :> "DD"
  @@ <<"H", "H">> :> "HH" @@ <<"m", "m">> :> "mm" @@ <<"s", "s">> :> "ss"

StartsWithAt(s, i, tok) == i + Len(tok) - 1 <= Len(s) /\ SubSeq(s, i, i + Len(tok) - 1) = tok

\* /YYYY|MM|DD|HH|mm|ss/ tried at index i: the number of the first
\* alternative that matches, or 0
TokenAt(s, i) ==
  IF \E n \in 1..Len(Tokens) : StartsWithAt(s, i, Tokens[n])
    THEN CHOOSE n \in 1..Len(Tokens) :
           StartsWithAt(s, i, Tokens[n]) /\ \A k \in 1..(n - 1) : ~StartsWithAt(s, i, Tokens[k])
    ELSE 0

\* the string the callback's return value becomes: date[key], or "undefined"
\* when the field was never set
FieldText(date, key) ==
  IF key \in DOMAIN date THEN date[key]
  ELSE <<"u", "n", "d", "e", "f", "i", "n", "e", "d">>

RECURSIVE ReplaceTokensFrom(_, _, _)
\* format.replace(/YYYY|MM|DD|HH|mm|ss/g, (key) => date[key]) from index i:
\* a match is replaced and the scan resumes after it in the template
ReplaceTokensFrom(format, i, date) ==
  IF i > Len(format) THEN <<>>
  ELSE IF TokenAt(format, i) = 0
    THEN <<format[i]>> \o ReplaceTokensFrom(format, i + 1, date)
  ELSE FieldText(date, TokenName[Tokens[TokenAt(format, i)]])
       \o ReplaceTokensFrom(format, i + Len(Tokens[TokenAt(format, i)]), date)

formatDateToString(parts, format) ==
  ReplaceTokensFrom(format, 1, formatDateToDateTime(parts))

Lit(c) == Part("literal", c)
\* month/day/year, hour:minute:second as en-US formatters give them
ClockParts(hour) ==
  << Part("month", <<"0", "3">>), Lit(<<"/">>), Part("day", <<"0", "9">>), Lit(<<"/">>),
     Part("year", <<"2", "0", "2", "4">>), Lit(<<",", " ">>), Part("hour", hour),
     Lit(<<":">>), Part("minute", <<"0", "5">>), Lit(<<":">>), Part("second", <<"5", "9">>) >>
PartsLists ==
  { ClockParts(h) : h \in {<<"2", "4">>, <<"0", "0">>, <<"1", "7">>} }
  \cup { \* an hour given twice, the last one decides
         ClockParts(<<"2", "4">>) \o <<Part("hour", <<"0", "7">>)>>,
         ClockParts(<<"0", "7">>) \o <<Part("hour", <<"2", "4">>), Part("dayPeriod", <<"A", "M">>)>>,
         \* a month name that contains a token
         <<Part("month", <<"M", "e", "s", "s", "i", "d", "o", "r">>)>> \o ClockParts(<<"2", "4">>)
           \o <<Part("month", <<"m", "m", "s", "s">>)>>,
         \* formatters that do not give every part
         SubSeq(ClockParts(<<"2", "4">>), 1, 9),
         <<>> }

TemplateChars == {"Y", "M", "m", "-"}
Templates ==
  SeqsUpTo(TemplateChars, MaxTemplateLen)
  \cup { <<"Y", "Y", "Y", "Y", "-", "M", "M", "-", "D", "D", " ", "H", "H", ":", "m", "m", ":", "s", "s">>,
         <<"y", "y", "y", "y", "-", "M", "M", "-", "d", "d">>,
         <<"D", "D", "/", "M", "M", "/", "Y", "Y", "Y", "Y", "Y">>,
         <<"H", "H", "H", ":", "m", "m", "m", ":", "s", "s", "s">>,
         <<"h", "h", ":", "M", "m", ":", "S", "S", " ", "s", "S">>,
         <<"D", "H", "H", "s", "s", "s", "s", "D", "D", "D">> }

InitDate ==
  /\ pc = "call"
  /\ args \in { [fn |-> "formatDateToString", parts |-> ps, format |-> f] :
                  ps \in PartsLists, f \in Templates }
              \cup { [fn |-> "formatDateToDateTime", parts |-> ps] : ps \in PartsLists }
  /\ locals = NoLocals
  /\ result = NoResult

\* one call of formatDateToDateTime; result is the record returned
FormatDateToDateTime ==
  /\ pc = "call"
  /\ args.fn = "formatDateToDateTime"
  /\ result' = formatDateToDateTime(args.parts)
  /\ pc' = "done"
  /\ UNCHANGED <<args, locals>>

\* one call of formatDateToString; locals.date is its local date
FormatDateToString ==
  /\ pc = "call"
  /\ args.fn = "formatDateToString"
  /\ locals' = [date |-> formatDateToDateTime(args.parts)]
  /\ result' = formatDateToString(args.parts, args.format)
  /\ pc' = "done"
  /\ UNCHANGED args

NextDate == FormatDateToDateTime \/ FormatDateToString

SpecDate == InitDate /\ [][NextDate]_vars

(***************************************************************************)
(* Properties of formatValue.                                              *)
(***************************************************************************)
\* plain member access data.k1.k2...: the value reached, or an invalid value
\* as soon as an invalid value would have to be indexed
RECURSIVE Reached(_, _)
Reached(v, keys) ==
  IF ~isValid(v) \/ keys = <<>> THEN v
  ELSE Reached(GetMember(v, Head(keys)), Tail(keys))

\* what the resolver owes for a token list: the reached value when valid,
\* else the default when a valid one was given, else "--"
Resolved(data, keys, defaultValue) ==
  IF isValid(Reached(data, keys)) THEN Reached(data, keys)
  ELSE IF isValid(defaultValue) THEN defaultValue
  ELSE Str(<<"-", "-">>)

\* a path of non-empty keys without brackets, joined by single dots
IsBareKeyPath(k) ==
  /\ k # <<>>
  /\ k[1] # "."
  /\ k[Len(k)] # "."
  /\ \A i \in 1..Len(k) : k[i] \notin {"[", "]"}
  /\ \A i \in 1..(Len(k) - 1) : ~(k[i] = "." /\ k[i + 1] = ".")

RECURSIVE SplitDots(_)
\* the pieces of k between its dots
SplitDots(k) ==
  IF \A i \in 1..Len(k) : k[i] # "." THEN <<k>>
  ELSE LET d == CHOOSE i \in 1..Len(k) : k[i] = "." /\ \A j \in 1..(i - 1) : k[j] # "."
       IN  <<SubSeq(k, 1, d - 1)>> \o SplitDots(SubSeq(k, d + 1, Len(k)))

\* C1: for a path of bare keys separated by '.', formatValue returns the value
\* reached by indexing data with each key in order when data, every
\* intermediate value and the final value are valid (falsy values included),
\* and otherwise the (valid) default, or "--" without one; the result is
\* never null or undefined.
ThmC1 ==
  Returned("formatValue") /\ IsBareKeyPath(args.key) =>
    /\ result = Resolved(args.data, SplitDots(args.key), args.defaultValue)
    /\ result.t \notin {"null", "undefined"}

\* a three-key path reaches a falsy leaf and returns it, not the default
WitC1 ==
  /\ Returned("formatValue")
  /\ args.key = <<"a", ".", "b", ".", "a">>
  /\ args.data = Prop(A, Prop(B, Prop(A, Num(0))))
  /\ args.defaultValue = Str(<<"x">>)
  /\ result = Num(0)

\* key = a[content]tail
BracketShape(key, content, tail) == key = A \o <<"[">> \o content \o <<"]">> \o tail
\* the text between "a[" and "]tail", when key has that shape
ContentOf(key, tail) == SubSeq(key, 3, Len(key) - Len(tail) - 1)
HasBracketShape(key, tail) ==
  /\ Len(key) >= 3 + Len(tail)
  /\ BracketShape(key, ContentOf(key, tail), tail)

\* an unquoted segment's content: not empty, not starting with a quote, no bracket
UnquotedContent(c) ==
  c # <<>> /\ c[1] \notin Quotes /\ \A i \in 1..Len(c) : c[i] \notin {"[", "]"}

RECURSIVE WellEscaped(_, _)
\* b is a sequence of items: a character other than the quote q and the
\* backslash, or a backslash and any one character
WellEscaped(b, q) ==
  IF b = <<>> THEN TRUE
  ELSE IF b[1] = BS THEN Len(b) >= 2 /\ WellEscaped(SubSeq(b, 3, Len(b)), q)
  ELSE b[1] # q /\ WellEscaped(Tail(b), q)

RECURSIVE Collapsed(_)
\* each backslash-plus-character item replaced by that character
Collapsed(b) ==
  IF b = <<>> THEN <<>>
  ELSE IF b[1] = BS THEN <<b[2]>> \o Collapsed(SubSeq(b, 3, Len(b)))
  ELSE <<b[1]>> \o Collapsed(Tail(b))

QuotedContent(c) ==
  /\ Len(c) >= 2
  /\ c[1] \in Quotes
  /\ c[Len(c)] = c[1]
  /\ WellEscaped(SubSeq(c, 2, Len(c) - 1), c[1])

\* c without its leading and trailing whitespace
Stripped(c) ==
  LET ink == {i \in 1..Len(c) : c[i] \notin Whitespace}
  IN  IF ink = {} THEN <<>>
      ELSE SubSeq(c, CHOOSE i \in ink : \A j \in ink : i <= j, Max(ink))

TailKeys(tail) == IF tail = <<>> THEN <<>> ELSE <<B>>

\* C2: a bracket segment yields exactly one token, a plain string key: an
\* unquoted [content] yields content trimmed (a[0] looks up "0"), a quoted
\* ['content'] or ["content"] yields content with every backslash escape
\* collapsed, one key even when it contains '.'; the value is resolved with it.
ThmC2 ==
  Returned("formatValue") /\ isValid(args.data) =>
    \A tail \in BracketTails :
      HasBracketShape(args.key, tail) =>
        LET c == ContentOf(args.key, tail)
        IN  /\ UnquotedContent(c) =>
                 /\ locals.path = <<A, Stripped(c)>> \o TailKeys(tail)
                 /\ result = Resolved(args.data, locals.path, args.defaultValue)
            /\ QuotedContent(c) =>
                 /\ locals.path = <<A, Collapsed(SubSeq(c, 2, Len(c) - 1))>> \o TailKeys(tail)
                 /\ result = Resolved(args.data, locals.path, args.defaultValue)

\* formatValue({a: {"b.c": 1, ...}}, 'a["b.c"]') = 1
WitC2 ==
  /\ Returned("formatValue")
  /\ args.key = <<"a", "[", "\"", "b", ".", "c", "\"", "]">>
  /\ locals.path = <<A, <<"b", ".", "c">>>>
  /\ result = Num(1)

\* a quoted segment with an escaped quote, and a padded numeric segment
WitC2Escape ==
  /\ Returned("formatValue")
  /\ args.key = <<"a", "[", "'", BS, "'", "b", "'", "]">>
  /\ locals.path = <<A, <<"'", "b">>>>

BareKeys == {A, B, <<"a", "b">>, <<"b", "b">>}
IsDotPath(k) == \A i \in 1..Len(k) : k[i] \in DotChars

RECURSIVE DotTokensFrom(_, _)
\* the tokens of a path over letters and dots, by position: a letter that
\* starts a run gives the run, a dot followed by a dot or by the end gives ""
DotTokensFrom(k, i) ==
  IF i > Len(k) THEN <<>>
  ELSE IF k[i] = "."
    THEN (IF i = Len(k) \/ k[i + 1] = "." THEN <<<<>>>> ELSE <<>>)
         \o DotTokensFrom(k, i + 1)
  ELSE IF i = 1 \/ k[i - 1] = "."
    THEN LET e == CHOOSE j \in i..Len(k) :
                    /\ \A x \in i..j : k[x] # "."
                    /\ (j = Len(k) \/ k[j + 1] = ".")
         IN  <<SubSeq(k, i, e)>> \o DotTokensFrom(k, i + 1)
  ELSE DotTokensFrom(k, i + 1)

\* the tokens and the result for the paths whose '.' is followed by '.' or by
\* the end of the path
DotRule ==
  IsDotPath(args.key) =>
    /\ locals.path = DotTokensFrom(args.key, 1)
    /\ result = Resolved(args.data, locals.path, args.defaultValue)

\* C10 as stated: a '.' followed by '.', by '[' or by the end of the path
\* contributes one empty-string token: 'a..b' -> [a, "", b], 'a.' -> [a, ""],
\* 'a.[b]' -> [a, "", b].
OrigC10 ==
  Returned("formatValue") /\ isValid(args.data) =>
    /\ DotRule
    /\ \A x \in BareKeys, y \in BareKeys :
         args.key = x \o <<".", "[">> \o y \o <<"]">> => locals.path = <<x, <<>>, y>>

\* C10 amended: a '.' followed by '.', by the empty bracket pair '[]' or by the
\* end of the path contributes one empty-string token; a '.' followed by a
\* bracket segment contributes none: 'a.[b]' -> [a, b], 'a.[]' -> [a, "", ""].
ThmC10 ==
  Returned("formatValue") /\ isValid(args.data) =>
    /\ DotRule
    /\ \A x \in BareKeys :
         /\ \A y \in BareKeys :
              args.key = x \o <<".", "[">> \o y \o <<"]">> => locals.path = <<x, y>>
         /\ args.key = x \o <<".", "[", "]">> => locals.path = <<x, <<>>, <<>>>>

\* 'a.' is resolved through the empty-string key
WitC10 ==
  /\ Returned("formatValue")
  /\ args.data = KeyedData
  /\ args.key = <<"a", ".">>
  /\ locals.path = <<A, <<>>>>
  /\ result = Num(7)

\* 'a.[b]' tokenizes without an empty key
WitC10Bracket ==
  /\ Returned("formatValue")
  /\ args.key = <<"a", ".", "[", "b", "]">>
  /\ locals.path = <<A, B>>
  /\ result = Num(1)

(***************************************************************************)
(* Properties of formatBigNumber.                                          *)
(***************************************************************************)
\* v > 10^t by integer comparison (v is below 2 * 10^9 in magnitude)
GreaterThanPow10(v, t) ==
  /\ ~v.neg
  /\ IF v.e >= 0 THEN v.e > t \/ v.m * Pow10(v.e) > Pow10(t)
     ELSE t - v.e <= 9 /\ v.m > Pow10(t - v.e)

\* the naturals n with |v / 10^d - n / 1000| <= 1 / 2000
NearestThousandths(v, d) ==
  LET a == IF v.e - d + 3 >= 0 THEN v.m * Pow10(v.e - d + 3) ELSE v.m
      P == IF v.e - d + 3 >= 0 THEN 1 ELSE Pow10(d - 3 - v.e)
      dist(n) == IF a >= n * P THEN a - n * P ELSE n * P - a
  IN  { n \in ((a \div P) - 1)..((a \div P) + 1) : n >= 0 /\ 2 * dist(n) <= P }

RECURSIVE StripZeros(_)
StripZeros(ds) ==
  IF ds # <<>> /\ ds[Len(ds)] = "0" THEN StripZeros(SubSeq(ds, 1, Len(ds) - 1)) ELSE ds

\* n thousandths written with at most 3 decimals, trailing zeros stripped
Thousandths(n) ==
  LET f == StripZeros(<<DigitChars[((n \div 100) % 10) + 1], DigitChars[((n \div 10) % 10) + 1],
                        DigitChars[(n % 10) + 1]>>)
  IN  Digits(n \div 1000) \o (IF f = <<>> THEN <<>> ELSE <<".">> \o f)

RoundedWith(v, d, suffix) == { Thousandths(n) \o <<suffix>> : n \in NearestThousandths(v, d) }

\* C3: with v the numeric coercion of value, formatBigNumber returns v/1e9
\* rounded to 3 decimals, trailing zeros stripped, and 'B' if v > 1e9; else
\* the same with 1e6 and 'M' if v > 1e6; else with 1e3 and 'K' if v > 1e3;
\* in every other case (a threshold itself, v <= 1000, negative or
\* non-numeric) the value's string form unchanged.
ThmC3 ==
  Returned("formatBigNumber") =>
    LET v == ToNumber(args.value)
    IN  IF "nan" \in DOMAIN v THEN result = ToStr(args.value)
        ELSE IF GreaterThanPow10(v, 9) THEN result \in RoundedWith(v, 9, "B")
        ELSE IF GreaterThanPow10(v, 6) THEN result \in RoundedWith(v, 6, "M")
        ELSE IF GreaterThanPow10(v, 3) THEN result \in RoundedWith(v, 3, "K")
        ELSE result = ToStr(args.value)

\* formatBigNumber(1000000) = "1000K": above one threshold, equal to the next
WitC3 ==
  /\ Returned("formatBigNumber")
  /\ args.value = Num(1000000)
  /\ result = <<"1", "0", "0", "0", "K">>

\* formatBigNumber(1500000000) = "1.5B"
WitC3Billion ==
  /\ Returned("formatBigNumber")
  /\ args.value = Num(1500000000)
  /\ result = <<"1", ".", "5", "B">>

(***************************************************************************)
(* Properties of formatThousands.                                          *)
(***************************************************************************)
\* the index of the first '.' of s, or 0
FirstDot(s) ==
  IF Includes(s, ".")
    THEN CHOOSE i \in 1..Len(s) : s[i] = "." /\ \A j \in 1..(i - 1) : s[j] # "."
    ELSE 0
IntegerPart(s) == IF FirstDot(s) = 0 THEN s ELSE SubSeq(s, 1, FirstDot(s) - 1)
\* what follows the first '.', that '.' included
FromFirstDot(s) == IF FirstDot(s) = 0 THEN <<>> ELSE SubSeq(s, FirstDot(s), Len(s))

RECURSIVE Concat(_)
Concat(ss) == IF ss = <<>> THEN <<>> ELSE Head(ss) \o Concat(Tail(ss))

\* ip with sep after each digit that has a positive multiple of three
\* characters, all digits, between it and the end of ip
GroupsOfThree(ip, sep) ==
  Concat([i \in 1..Len(ip) |->
            IF /\ IsDigit(ip[i])
               /\ (Len(ip) - i) % 3 = 0
               /\ i < Len(ip)
               /\ \A j \in i..Len(ip) : IsDigit(ip[j])
              THEN <<ip[i]>> \o sep ELSE <<ip[i]>>])

\* C4: with a non-empty separator the stringified value is split at its
\* first decimal point, the separator is inserted into the integer part
\* between the groups of three digits counted from its right end, and the
\* fractional part is rejoined exactly as it was; with the empty separator
\* the stringified value is returned unchanged.
OrigC4 ==
  Returned("formatThousands") =>
    result = IF args.sign = <<>> THEN ToStr(args.value)
             ELSE GroupsOfThree(IntegerPart(ToStr(args.value)), args.sign)
                  \o FromFirstDot(ToStr(args.value))

\* C4 for the values whose string form holds at most one '.'
SingleDotC4 ==
  Returned("formatThousands") /\ Len(Split(ToStr(args.value), ".")) <= 2 =>
    result = IF args.sign = <<>> THEN ToStr(args.value)
             ELSE GroupsOfThree(IntegerPart(ToStr(args.value)), args.sign)
                  \o FromFirstDot(ToStr(args.value))

\* C5 as stated: for every numeric value and every separator, applying
\* formatThousands to its own output changes nothing.
OrigC5 ==
  pc = "redone" /\ isNumber(ToNumber(args.value)) => result = locals.first

DigitFree(sep) == \A i \in 1..Len(sep) : ~IsDigit(sep[i]) /\ sep[i] # "."

\* C5 amended: for every value and every separator that contains neither a
\* digit nor '.', applying formatThousands to its own output with the same
\* separator changes nothing.
ThmC5 ==
  pc = "redone" /\ DigitFree(args.sign) => result = locals.first

\* "1,234,567" is left alone by the second call
WitC5 ==
  /\ pc = "redone"
  /\ args.value = Num(1234567)
  /\ args.sign = <<",">>
  /\ locals.first = <<"1", ",", "2", "3", "4", ",", "5", "6", "7">>
  /\ result = locals.first

(***************************************************************************)
(* Properties of the decimal folders.                                      *)
(***************************************************************************)
FoldFns ==
  {"formatFoldDecimal", "formatFoldDecimalForCurlyBracket", "formatFoldDecimalForSubscript"}

\* the index of the last '.' of s, or 0
LastDot(s) ==
  IF Includes(s, ".")
    THEN CHOOSE i \in 1..Len(s) : s[i] = "." /\ \A j \in (i + 1)..Len(s) : s[j] # "."
    ELSE 0
\* the part after the (last) decimal point, and the part before it
Fraction(s) == SubSeq(s, LastDot(s) + 1, Len(s))
BeforePoint(s) == SubSeq(s, 1, LastDot(s) - 1)
\* the length of the run of zeros that starts the fraction, and what follows it
ZeroRun(s) ==
  LET f == Fraction(s)
  IN  IF \A i \in 1..Len(f) : f[i] = "0" THEN Len(f)
      ELSE (CHOOSE i \in 1..Len(f) : f[i] # "0" /\ \A j \in 1..(i - 1) : f[j] = "0") - 1
AfterRun(s) == SubSeq(Fraction(s), ZeroRun(s) + 1, Len(Fraction(s)))

\* the fraction is k >= threshold zeros, a non-zero digit, then only digits
Foldable(s, threshold) ==
  /\ LastDot(s) > 0
  /\ ZeroRun(s) >= threshold
  /\ AfterRun(s) # <<>>
  /\ AfterRun(s)[1] \in {"1", "2", "3", "4", "5", "6", "7", "8", "9"}
  /\ \A i \in 1..Len(AfterRun(s)) : IsDigit(AfterRun(s)[i])

\* C6: when the stringified value's fraction is k >= threshold zeros, a
\* non-zero digit and then only digits, the result is the integer part, '.',
\* '0' + renderCount(k) and the digits after the run; for every other input
\* the result is the stringified value unchanged.
ThmC6 ==
  pc = "done" /\ args.fn \in FoldFns =>
    LET vl == ToStr(args.value)
    IN  IF Foldable(vl, args.threshold)
          THEN result = BeforePoint(vl) \o <<".", "0">>
                          \o RenderCount(args.format, ZeroRun(vl)) \o AfterRun(vl)
          ELSE result = vl

\* "12.000123" with threshold 3 and the decimal callback folds to "12.03123"
WitC6 ==
  /\ Returned("formatFoldDecimal")
  /\ args.value = Str(<<"1", "2", ".", "0", "0", "0", "1", "2", "3">>)
  /\ args.threshold = 3
  /\ result = <<"1", "2", ".", "0", "3", "1", "2", "3">>

Tiny == Norm(FALSE, 123, 0 - 10)
TinyText == <<"0", ".", "0", "0", "0", "0", "0", "0", "0", "1", "2", "3">>

\* C7 as stated: formatFoldDecimalForCurlyBracket(0.0000000123, 4) is
\* "0.{7}123", and a decimal point followed by k >= threshold zeros and digits
\* d is rendered integer part, '.', '{k}', d; a shorter run is unchanged.
OrigC7 ==
  Returned("formatFoldDecimalForCurlyBracket") =>
    LET vl == ToStr(args.value)
    IN  /\ args.threshold = 4 /\ args.value \in {Tiny, Str(TinyText)} =>
             result = <<"0", ".", "{", "7", "}", "1", "2", "3">>
        /\ IF Foldable(vl, args.threshold)
             THEN result = BeforePoint(vl) \o <<".", "{">> \o Digits(ZeroRun(vl))
                             \o <<"}">> \o AfterRun(vl)
             ELSE result = vl

\* C7 amended: for a value whose string form has its decimal point followed
\* by k >= threshold zeros and digits d, the result is integer part, '.',
\* '0{k}', d: formatFoldDecimalForCurlyBracket("0.0000000123", 4) is
\* "0.0{7}123"; a shorter run, and the number 0.0000000123 (whose string
\* form is "1.23e-8"), are returned as their string form.
ThmC7 ==
  Returned("formatFoldDecimalForCurlyBracket") =>
    LET vl == ToStr(args.value)
    IN  /\ args.threshold = 4 /\ args.value = Str(TinyText) =>
             result = <<"0", ".", "0", "{", "7", "}", "1", "2", "3">>
        /\ args.value = Tiny => result = <<"1", ".", "2", "3", "e", "-", "8">>
        /\ IF Foldable(vl, args.threshold)
             THEN result = BeforePoint(vl) \o <<".", "0", "{">> \o Digits(ZeroRun(vl))
                             \o <<"}">> \o AfterRun(vl)
             ELSE result = vl

WitC7 ==
  /\ Returned("formatFoldDecimalForCurlyBracket")
  /\ args.value = Str(TinyText)
  /\ args.threshold = 4
  /\ locals.count = 7
  /\ result = <<"0", ".", "0", "{", "7", "}", "1", "2", "3">>

\* C8: the marker the subscript policy places after the leading '0' is the
\* count with each of its decimal digits replaced by its subscript glyph,
\* for counts of two or more digits too: no ASCII digit is left in it.
OrigC8 ==
  Returned("formatFoldDecimalForSubscript") /\ "count" \in DOMAIN locals =>
    /\ locals.count >= args.threshold
    /\ locals.marker = [i \in 1..Len(Digits(locals.count)) |->
                          subscriptNumbers[Digits(locals.count)[i]]]
    /\ \A i \in 1..Len(locals.marker) : ~IsDigit(locals.marker[i])

\* C8 for the counts of one digit
OneDigitC8 ==
  Returned("formatFoldDecimalForSubscript") /\ "count" \in DOMAIN locals
    /\ locals.count < 10 =>
      /\ locals.marker = <<subscriptNumbers[Digits(locals.count)[1]]>>
      /\ result = BeforePoint(ToStr(args.value)) \o <<".", "0">> \o locals.marker
                    \o AfterRun(ToStr(args.value))

(***************************************************************************)
(* Properties of formatDateToString.                                       *)
(***************************************************************************)
PartTypes == {"year", "month", "day", "hour", "minute", "second"}
CoversAll(parts) == \A ty \in PartTypes : \E i \in 1..Len(parts) : parts[i].type = ty

\* the component of a token: the value of the last part of its type, an
\* hour of "24" rendered as "00"
Component(parts, token) ==
  LET ty == CHOOSE x \in PartTypes : FieldOf[x] = token
      last == Max({i \in 1..Len(parts) : parts[i].type = ty})
  IN  IF ty = "hour" /\ parts[last].value = <<"2", "4">> THEN <<"0", "0">>
      ELSE parts[last].value

TokenTexts == {Tokens[n] : n \in 1..Len(Tokens)}
\* the token that occurs in f at index i (two tokens never begin alike)
OccursAt(f, i) == {tok \in TokenTexts : StartsWithAt(f, i, tok)}
TokenLenAt(f, i) == Len(CHOOSE tok \in OccursAt(f, i) : TRUE)
Covered(f, S, i) == \E j \in S : j <= i /\ i < j + TokenLenAt(f, j)

\* S is the set of occurrences a single left-to-right scan replaces: they do
\* not overlap, and no token begins at an index outside them
ScanChoice(f, S) ==
  /\ \A i \in S, j \in S : i < j => i + TokenLenAt(f, i) <= j
  /\ \A i \in 1..Len(f) : OccursAt(f, i) # {} /\ ~Covered(f, S, i) => i \in S

\* f with the occurrences S replaced by their components, the rest copied
Substituted(f, S, parts) ==
  Concat([i \in 1..Len(f) |->
            IF i \in S THEN Component(parts, TokenName[CHOOSE tok \in OccursAt(f, i) : TRUE])
            ELSE IF Covered(f, S, i) THEN <<>>
            ELSE <<f[i]>>])

\* C9: for a formatter whose parts cover year, month, day, hour, minute and
\* second, formatDateToString replaces every non-overlapping occurrence of
\* YYYY, MM, DD, HH, mm, ss found in one left-to-right scan of the template
\* by the component of formatDateToDateTime (last part of the type, hour
\* "24" as "00"), copies every other character, and never scans a
\* substituted text again.
ThmC9 ==
  Returned("formatDateToString") /\ CoversAll(args.parts) =>
    /\ \A tok \in TokenTexts : locals.date[TokenName[tok]] = Component(args.parts, TokenName[tok])
    /\ \E S \in SUBSET {i \in 1..Len(args.format) : OccursAt(args.format, i) # {}} :
         /\ ScanChoice(args.format, S)
         /\ result = Substituted(args.format, S, args.parts)

\* "YYYY-MM-DD HH:mm:ss" at hour "24"
WitC9 ==
  /\ Returned("formatDateToString")
  /\ args.parts = ClockParts(<<"2", "4">>)
  /\ args.format = <<"Y", "Y", "Y", "Y", "-", "M", "M", "-", "D", "D", " ", "H", "H", ":", "m", "m", ":", "s", "s">>
  /\ result = <<"2", "0", "2", "4", "-", "0", "3", "-", "0", "9", " ", "0", "0", ":", "0", "5", ":", "5", "9">>

====
